---- MODULE Spec2Model ----
(***************************************************************************)
(* Model of iDEA's many-body ("interacting") solver,                       *)
(* src/iDEA/methods/interacting.py: operator lifting by Kronecker          *)
(* products, the pairwise interaction operator, the eigen-solver paths,    *)
(* antisymmetrization and the selection of the requested state.            *)
(*                                                                         *)
(* Conventions.  A matrix is a sequence of rows, a row a sequence of       *)
(* integers (1-based in TLA+, the code's index i is position i+1).  A      *)
(* tensor of rank r is a function from the index tuples                    *)
(* [1..r -> 0..size-1] to integers.  A raised Python exception is the      *)
(* field err of a result record.                                           *)
(***************************************************************************)
EXTENDS Integers, Sequences, FiniteSets, TLC

(***************************************************************************)
(* Bounds of the model.                                                    *)
(***************************************************************************)
\* largest number of grid points len(s.x)
MaxGrid == 3
\* largest particle count s.count
MaxCount == 3
\* largest dimension len(s.x) ** s.count of the many-body space
MaxDim == 9
\* largest entry of an input operator or kernel
MaxVal == 1
\* input matrices are the first MaxSeed + 1 matrices of the enumeration
MaxSeed == 15
\* largest number of raw eigenpairs asked of the eigen-solver (level)
MaxLevel == 3
\* largest size of the eigenvector array, len(s.x) ** s.count rows by level
\* columns
MaxCells == 12
\* raw eigenvectors are vectors 1..MaxVecSeed of the enumeration
MaxVecSeed == 21
\* largest dimension of a Hamiltonian given by its spectrum
MaxSpectrum == 3
\* largest magnitude of an eigenvalue of such a Hamiltonian
MaxEig == 2
\* largest number of solve calls of one process
MaxCalls == 4
\* largest number of points of the time grid
MaxT == 3
\* largest first time step t[1] - t[0]
MaxDt == 2
\* the inputs of propagate are numbers 0..MaxPropSeed of their enumerations
MaxPropSeed == 3
\* longest electrons string given to System
MaxElectrons == 2
\* longest permutation given to _permutation_parity on its own
MaxPerm == 5

VARIABLES
    s,          \* the System handed to the operation
    terms,      \* result of gen_terms(s.h, I, s.count)
    H,          \* result of hamiltonian(s)
    pc,         \* position of solve: "eigsh", "spin", "zeros", "antisym", "done"
    raw,        \* energies and eigenvector columns returned by the eigen-solver
    arr,        \* the local arrays fulls, spaces, spins, energies of solve
    state,      \* what solve returns: the populated state, or the exception
    spectrum,   \* a symmetric H by its eigenvalues: spectrum[v] belongs to
                \* eigenvector number v
    level,      \* number of eigenpairs asked for
    cpu,        \* energies and columns of the CPU path of solve
    gpu,        \* energies and columns of the GPU path of solve
    env,        \* os.environ.get("iDEA_GPU"): "unset", "True" or "other"
    mod,        \* the module interacting: loaded or not, csps bound or not
    calls,      \* the eigen-solver branch every solve call so far has taken
    Harg,       \* the argument H of propagate: None, or the caller's matrix
    v_ptrb,     \* the perturbing potential, v_ptrb[j + 1] its row j
    t,          \* the time grid
    prop,       \* the locals of propagate: position, H, dt, j, terms, ...
    evolution,  \* the ManyBodyEvolution: space and td_space
    drift,      \* drift[j + 1]: the norm of snapshot j is out of tolerance
    log,        \* the reads and writes of td_space so far, in order
    args,       \* the arguments of System(x, v_ext, v_int, electrons, stencil)
    obj,        \* the System object: not there yet, the exception, or its fields
    perm,       \* the permutation given to _permutation_parity
    sign        \* what _permutation_parity returned for perm, 0 before the call

vars == <<s, terms, H, pc, raw, arr, state, spectrum, level, cpu, gpu,
          env, mod, calls, Harg, v_ptrb, t, prop, evolution, drift, log,
          args, obj, perm, sign>>
coreVars == <<s, terms, H, pc, raw, arr, state, spectrum, level, cpu, gpu>>
backendVars == <<env, mod, calls>>
propVars == <<Harg, v_ptrb, t, prop, evolution, drift, log>>
sysVars == <<args, obj>>
parityVars == <<perm, sign>>
extVars == <<backendVars, propVars, sysVars, parityVars>>
\* what the actions of one specification leave alone
notBackendVars == <<coreVars, propVars, sysVars, parityVars>>
notPropVars == <<terms, H, pc, raw, arr, spectrum, level, cpu, gpu, backendVars,
                 sysVars, parityVars>>
notSysVars == <<coreVars, backendVars, propVars, parityVars>>
notParityVars == <<coreVars, backendVars, propVars, sysVars>>
liftVars == <<terms, H>>
solveVars == <<pc, raw, arr, state>>
eigVars == <<spectrum, level, cpu, gpu>>

(***************************************************************************)
(* Arithmetic helpers.                                                     *)
(***************************************************************************)
RECURSIVE Pow(_, _)
Pow(b, e) == IF e = 0 THEN 1 ELSE b * Pow(b, e - 1)

RECURSIVE SumSeq(_)
SumSeq(q) == IF q = <<>> THEN 0 ELSE Head(q) + SumSeq(Tail(q))

(***************************************************************************)
(* Sparse-matrix primitives of scipy.sparse used by the code.              *)
(***************************************************************************)
Dim(A) == Len(A)

\* sps.identity(g)
identity(g) == [i \in 1..g |-> [j \in 1..g |-> IF i = j THEN 1 ELSE 0]]

\* sps.dia_matrix((d, d)): the empty (all-zero) matrix
zeros(d) == [i \in 1..d |-> [j \in 1..d |-> 0]]

\* A + B
MatAdd(A, B) == [i \in 1..Dim(A) |-> [j \in 1..Dim(A) |-> A[i][j] + B[i][j]]]

\* sps.kron(A, B): the block matrix whose (i, j) block is A[i, j] * B
kron(A, B) ==
    LET m == Dim(B)
        d == Dim(A) * m
    IN  [r \in 1..d |-> [c \in 1..d |->
            A[((r - 1) \div m) + 1][((c - 1) \div m) + 1]
          * B[((r - 1) % m) + 1][((c - 1) % m) + 1]]]

\* sps.diags(v): the diagonal matrix of the vector v
diags(v) == [i \in 1..Len(v) |-> [j \in 1..Len(v) |-> IF i = j THEN v[i] ELSE 0]]

(***************************************************************************)
(* Operator lifting: par_ops and gen_terms.                                *)
(***************************************************************************)
\* par_ops with the test off by one (i + k == n_electrons)
par_ops_off_by_one(op, I, k, n) == [p \in 1..n |-> IF (p - 1) + k = n THEN op ELSE I]

\* par_ops(op, I, k, n_electrons): op at list index i with i + k = n - 1
par_ops(op, I, k, n) == [p \in 1..n |-> IF (p - 1) + k = n - 1 THEN op ELSE I]

\* the while loop of gen_terms: A = ops.pop(0); B = kron(A, B)
RECURSIVE KronFold(_, _)
KronFold(B, ops) ==
    IF ops = <<>> THEN B ELSE KronFold(kron(Head(ops), B), Tail(ops))

\* one pass of the for loop of gen_terms; the two unconditional ops.pop(0)
\* raise IndexError when the list has fewer than two elements
gen_term(op, I, k, n) ==
    LET ops == par_ops(op, I, k, n)
    IN  IF Len(ops) < 2
        THEN [err |-> "IndexError", val |-> <<>>]
        ELSE [err |-> "none",
              val |-> KronFold(kron(ops[2], ops[1]), SubSeq(ops, 3, n))]

\* gen_terms(op, I, n_electrons): the list of the n terms, or the exception
\* of the first pass that raises
gen_terms(op, I, n) ==
    IF \E k \in 0..(n - 1) : gen_term(op, I, k, n).err # "none"
    THEN [err |-> "IndexError", val |-> <<>>]
    ELSE [err |-> "none", val |-> [p \in 1..n |-> gen_term(op, I, p - 1, n).val]]

\* H0 = dia_matrix((g ** n,) * 2); for term in terms: H0 += term
RECURSIVE SumTerms(_, _)
SumTerms(acc, ts) ==
    IF ts = <<>> THEN acc ELSE SumTerms(MatAdd(acc, Head(ts)), Tail(ts))

(***************************************************************************)
(* The interaction operator of hamiltonian.                                *)
(***************************************************************************)
\* np.exp and np.log, in base 2 on the naturals: Exp turns sums into
\* products and Log turns them back, exactly on powers of the base
Exp(v) == Pow(2, v)

RECURSIVE Log(_)
Log(p) == IF p <= 1 THEN 0 ELSE 1 + Log(p \div 2)

\* every ordered pair of distinct axes, as itertools.permutations would give
combinations_ordered(n) == {<<i, j>> \in (1..n) \X (1..n) : i # j}

\* itertools.combinations(symbols[:n], 2): the axis pairs (i, j), i < j
combinations(n) == {<<i, j>> \in (1..n) \X (1..n) : i < j}

\* the index tuples of a rank-n tensor with axes of the given size
Idx(n, size) == [1..n -> 0..(size - 1)]

RECURSIVE ProdPairs(_, _, _)
ProdPairs(E, x, pairs) ==
    IF pairs = {} THEN 1
    ELSE LET pr == CHOOSE q \in pairs : TRUE
         IN  E[x[pr[1]] + 1][x[pr[2]] + 1] * ProdPairs(E, x, pairs \ {pr})

\* np.einsum("ab,ac,bc->abc", E, E, E): one factor E[x_i, x_j] per pair
einsum_pairs(E, n, g) == [x \in Idx(n, g) |-> ProdPairs(E, x, combinations(n))]

\* the index tuple of flat position f (0-based) in C (row-major) order:
\* axis 1 is the most significant
unravel(f, n, g) == [a \in 1..n |-> (f \div Pow(g, n - a)) % g]

\* T.reshape(g ** n)
reshape_flat(T, n, g) == [f \in 1..Pow(g, n) |-> T[unravel(f - 1, n, g)]]

\* lines 148-161: U = diags(log(einsum(exp(v_int) ...)).reshape(g ** n)) when
\* count > 1, else the scalar 0.0 (which adds nothing to H0)
interaction(v_int, n, g) ==
    IF n > 1
    THEN LET E == [i \in 1..g |-> [j \in 1..g |-> Exp(v_int[i][j])]]
             P == einsum_pairs(E, n, g)
             U == [x \in Idx(n, g) |-> Log(P[x])]
         IN  diags(reshape_flat(U, n, g))
    ELSE zeros(Pow(g, n))

\* hamiltonian(s); sys.h is the single-particle Hamiltonian of line 139,
\* iDEA.methods.non_interacting.hamiltonian(s)[0], an input of the model
hamiltonian(sys) ==
    LET g  == sys.g
        n  == sys.count
        ts == gen_terms(sys.h, identity(g), n)
    IN  IF ts.err # "none"
        THEN [err |-> ts.err, H0 |-> <<>>, U |-> <<>>, H |-> <<>>]
        ELSE LET H0 == SumTerms(zeros(Pow(g, n)), ts.val)
                 U  == interaction(sys.v_int, n, g)
             IN  [err |-> "none", H0 |-> H0, U |-> U, H |-> MatAdd(H0, U)]

(***************************************************************************)
(* solve, after the eigen-solver: reshape, normalise, spin part.           *)
(*                                                                         *)
(* A wavefunction divided by a norm is kept exactly as the pair            *)
(* [t, nsq]: the integer tensor t divided by sqrt(nsq * dx^count).         *)
(* np.allclose is modelled with tolerance zero (exact equality).           *)
(***************************************************************************)
\* np.sum(abs(T) ** 2)
SumSq(T) ==
    LET RECURSIVE Acc(_)
        Acc(D) == IF D = {} THEN 0
                  ELSE LET x == CHOOSE y \in D : TRUE
                       IN  T[x] * T[x] + Acc(D \ {x})
    IN  Acc(DOMAIN T)

\* flat position (0-based) of index tuple x in C order
ravel(x, n, g) == SumSeq([a \in 1..n |-> x[a] * Pow(g, n - a)])

\* lines 385-389: spaces.reshape((g,) * count + (level,)), then every column
\* divided by sqrt(sum(abs(column) ** 2) * dx ** count)
reshape_normalise(col, n, g) ==
    LET T == [x \in Idx(n, g) |-> col[ravel(x, n, g) + 1]]
    IN  [t |-> T, nsq |-> SumSq(T)]

\* a spin part that takes every electron for an up electron
spin_all_up(electrons) ==
    [A \in Idx(Len(electrons), 2) |-> IF \A i \in 1..Len(electrons) : A[i] = 0 THEN 1 ELSE 0]

\* lines 393-398: u = [1, 0], d = [0, 1], spin = einsum("a,b->ab", *spin_state)
spin_of(electrons) ==
    LET n  == Len(electrons)
        sv == [i \in 1..n |-> IF electrons[i] = "u" THEN <<1, 0>> ELSE <<0, 1>>]
        RECURSIVE Prod(_, _)
        Prod(A, i) == IF i = 0 THEN 1 ELSE sv[i][A[i] + 1] * Prod(A, i - 1)
    IN  [A \in Idx(n, 2) |-> Prod(A, n)]

(***************************************************************************)
(* _permutation_parity and antisymmetrize.                                 *)
(***************************************************************************)
\* a permutation p of range(n) is the sequence p[1..n] of its values 0..n-1
permutations(n) ==
    {p \in [1..n -> 0..(n - 1)] : \A i, j \in 1..n : p[i] = p[j] => i = j}

\* a parity that never flips
\* one sign flip per element out of place, nothing moved
parity_of_displaced(p) ==
    IF Cardinality({i \in 1..Len(p) : p[i] # i - 1}) % 2 = 0 THEN 1 ELSE -1

parity_always_even(p) == 1

\* _permutation_parity(p): selection sort, one sign flip per element found
\* out of place; min(range(i, len(p)), key=p.__getitem__) is the first
\* position of the least value
_permutation_parity(p) ==
    LET n == Len(p)
        RECURSIVE Loop(_, _, _)
        Loop(q, i, parity) ==
            IF i > n - 2 THEN parity
            ELSE IF q[i + 1] # i
                 THEN LET mn == CHOOSE m \in (i + 1)..n :
                                    \A r \in (i + 1)..n :
                                        q[m] < q[r] \/ (q[m] = q[r] /\ m <= r)
                          sw == [q EXCEPT ![i + 1] = q[mn], ![mn] = q[i + 1]]
                      IN  Loop(sw, i + 1, -parity)
                 ELSE Loop(q, i + 1, parity)
    IN  Loop(p, 0, 1)

\* index tuples of a full wavefunction: axes 2i-1 (space of particle i, size
\* g) and 2i (its spin, size 2) interleaved
FullIdx(n, g) ==
    {j \in [1..(2 * n) -> 0..(g - 1)] : \A a \in 1..n : j[2 * a] < 2}

\* line 242: einsum("abY,ABY->aAbBY", spaces, spins) for one candidate Y
einsum_full(space, spin, n, g) ==
    [t |-> [j \in FullIdx(n, g) |->
                space.t[[a \in 1..n |-> j[2 * a - 1]]]
              * spin[[a \in 1..n |-> j[2 * a]]]],
     nsq |-> space.nsq]

\* line 248: indices = chain(*[L[e] for e in p]) with L[e] = (2e, 2e + 1),
\* as a 1-based sequence of 1-based axes
indices_of(p) ==
    [i \in 1..(2 * Len(p)) |->
        IF i % 2 = 1 THEN 2 * p[(i + 1) \div 2] + 1 ELSE 2 * p[i \div 2] + 2]

\* np.moveaxis(T, range(2n), dest): source axis i becomes axis dest[i]
moveaxis(T, dest) ==
    [j \in DOMAIN T |-> T[[i \in 1..Len(dest) |-> j[dest[i]]]]]

\* the permutations of range(n) as a list, each with its parity and its
\* destination axes (lines 244, 248, 249)
perm_list(n) ==
    LET RECURSIVE List(_)
        List(P) ==
            IF P = {} THEN <<>>
            ELSE LET p == CHOOSE q \in P : TRUE
                 IN  <<[parity |-> _permutation_parity(p), dest |-> indices_of(p)]>>
                     \o List(P \ {p})
    IN  List(permutations(n))

\* lines 244-251: fulls = sum over the permutations p of
\* _permutation_parity(p) * moveaxis(fulls_copy, range(2 count), indices)
antisymmetrized(full, n) ==
    LET pl == perm_list(n)
        RECURSIVE Acc(_, _)
        Acc(i, j) ==
            IF i = 0 THEN 0
            ELSE pl[i].parity * moveaxis(full.t, pl[i].dest)[j] + Acc(i - 1, j)
    IN  [t |-> [j \in DOMAIN full.t |-> Acc(Len(pl), j)],
         nsq |-> full.nsq]

\* np.allclose(fulls[..., n], zeros)
is_zero(full) == \A j \in DOMAIN full.t : full.t[j] = 0

\* np.allclose(abs(a), abs(b)) of two normalised wavefunctions
same_magnitude(a, b) ==
    \A j \in DOMAIN a.t : a.t[j] * a.t[j] * b.nsq = b.t[j] * b.t[j] * a.nsq

\* subsequence of q at the positions satisfying keep, in order
RECURSIVE Filter(_, _, _)
Filter(q, keep, i) ==
    IF i > Len(q) THEN <<>>
    ELSE (IF keep[i] THEN <<q[i]>> ELSE <<>>) \o Filter(q, keep, i + 1)

\* lines 231-269: antisymmetrize every candidate, then filter out zeros
antisymmetrize_zeros(sys, a) ==
    LET m     == Len(a.spaces)
        fulls == [c \in 1..m |->
                    antisymmetrized(
                        einsum_full(a.spaces[c], a.spins[c], sys.count, sys.g),
                        sys.count)]
        keep  == [c \in 1..m |-> ~is_zero(fulls[c])]
    IN  [fulls    |-> Filter(fulls, keep, 1),
         spaces   |-> Filter(a.spaces, keep, 1),
         spins    |-> Filter(a.spins, keep, 1),
         energies |-> Filter(a.energies, keep, 1)]

\* lines 271-293: normalise, filter out duplicates, truncate; fulls[..., -1]
\* raises IndexError when no candidate is left
antisymmetrize_duplicates(a) ==
    LET m     == Len(a.fulls)
        fulls == [c \in 1..m |-> [t |-> a.fulls[c].t, nsq |-> SumSq(a.fulls[c].t)]]
        keep  == [c \in 1..m |->
                    IF c < m THEN ~same_magnitude(fulls[c], fulls[c + 1]) ELSE TRUE]
        kept  == Filter(fulls, keep, 1)
    IN  IF m = 0
        THEN [err |-> "IndexError", fulls |-> <<>>, spaces |-> <<>>,
              spins |-> <<>>, energies |-> <<>>]
        ELSE [err |-> "none",
              fulls    |-> kept,
              spaces   |-> SubSeq(a.spaces, 1, Len(kept)),
              spins    |-> SubSeq(a.spins, 1, Len(kept)),
              energies |-> Filter(a.energies, keep, 1)]

\* lines 406-412: state.space = spaces[..., k] and so on; an index out of
\* range raises IndexError
populate(a, k) ==
    IF k >= Len(a.spaces) \/ k >= Len(a.spins) \/ k >= Len(a.fulls)
            \/ k >= Len(a.energies)
    THEN [err |-> "IndexError", k |-> k]
    ELSE [err |-> "none", k |-> k,
          space |-> a.spaces[k + 1], spin |-> a.spins[k + 1],
          full |-> a.fulls[k + 1], energy |-> a.energies[k + 1]]

(***************************************************************************)
(* The eigen-solver paths of solve.  H is given by its spectral            *)
(* decomposition; a column of the eigenvector array is the number of the   *)
(* eigenvector it holds.  Eigenvalues are exact rationals [num, den],      *)
(* den > 0.                                                                *)
(***************************************************************************)
Rat(n) == [num |-> n, den |-> 1]
RatLeq(a, b) == a.num * b.den <= b.num * a.den
RatEq(a, b) == a.num * b.den = b.num * a.den
RatAdd(a, b) == [num |-> a.num * b.den + b.num * a.den, den |-> a.den * b.den]
RatMul(a, b) == [num |-> a.num * b.num, den |-> a.den * b.den]
RatDiv(a, b) ==
    IF b.num > 0 THEN [num |-> a.num * b.den, den |-> a.den * b.num]
    ELSE [num |-> -(a.num * b.den), den |-> -(a.den * b.num)]

\* what eigsh(A, k=k, which=wh) may return for the operator with
\* eigenvalue vals[v] on eigenvector v: k columns holding k different
\* eigenvectors, those of the k smallest ("SA") or largest ("LA") algebraic
\* eigenvalues, in ascending order of eigenvalue (the order of ARPACK)
eigsh(vals, k, wh) ==
    {cols \in [1..k -> DOMAIN vals] :
        /\ \A a, b \in 1..k : cols[a] = cols[b] => a = b
        /\ \A a \in 1..k : \A v \in DOMAIN vals :
              (\A b \in 1..k : cols[b] # v) =>
                  IF wh = "SA" THEN RatLeq(vals[cols[a]], vals[v])
                  ELSE RatLeq(vals[v], vals[cols[a]])
        /\ \A a \in 1..(k - 1) : RatLeq(vals[cols[a]], vals[cols[a + 1]])}

\* line 328
sigma == 0

\* line 329
which == "LA"

\* lines 330-332: the operator x -> splu(H - sigma I).solve(x), which has
\* the eigenvectors of H with the eigenvalues 1 / (lambda - sigma)
shift_invert(vals) ==
    [v \in DOMAIN vals |-> RatDiv(Rat(1), RatAdd(vals[v], Rat(-sigma)))]

\* np.argsort(w): the orders that sort w ascending
argsort(w) ==
    {idx \in [1..Len(w) -> 1..Len(w)] :
        /\ \A a, b \in 1..Len(w) : idx[a] = idx[b] => a = b
        /\ \A a \in 1..(Len(w) - 1) : RatLeq(w[idx[a]], w[idx[a + 1]])}

\* the re-sort with the eigenvector columns left in the order of eigsh
resort_values_only(w, cols, idx) ==
    [energies |-> [a \in 1..Len(w) |-> w[idx[a]]], spaces |-> cols]

\* lines 337-340: eigenvalues[idx] and transpose(transpose(eigenstates)[idx])
resort(w, cols, idx) ==
    [energies |-> [a \in 1..Len(w) |-> w[idx[a]]],
     spaces   |-> [a \in 1..Len(w) |-> cols[idx[a]]]]

\* _solve_on_gpu(H, k): every result the run may have
_solve_on_gpu(vals, k) ==
    UNION {LET mu == [a \in 1..k |-> shift_invert(vals)[cols[a]]]
               w  == [a \in 1..k |->
                        RatDiv(RatAdd(Rat(1), RatMul(mu[a], Rat(sigma))), mu[a])]
           IN  {resort(w, cols, idx) : idx \in argsort(w)} :
           cols \in eigsh(shift_invert(vals), k, which)}

\* line 382: spsla.eigsh(H.tocsr(), k=level, which="SA")
solve_on_cpu(vals, k) ==
    {[energies |-> [a \in 1..k |-> vals[cols[a]]], spaces |-> cols] :
        cols \in eigsh(vals, k, "SA")}

(***************************************************************************)
(* Inputs.                                                                 *)
(***************************************************************************)
\* the matrix number seed of the g x g matrices with entries in 0..MaxVal,
\* entry (i, j) being digit (i-1)*g + (j-1) of seed in base MaxVal + 1
MatOfSeed(seed, g) ==
    [i \in 1..g |-> [j \in 1..g |->
        (seed \div Pow(MaxVal + 1, (i - 1) * g + (j - 1))) % (MaxVal + 1)]]

\* the vector number seed of the vectors of length d with entries in
\* {0, 1, -1}: entry i is digit i-1 of seed in base 3, the digit 2 read as -1
VecOfSeed(seed, d) ==
    [i \in 1..d |->
        LET dg == (seed \div Pow(3, i - 1)) % 3 IN IF dg = 2 THEN -1 ELSE dg]

\* grid sizes and particle counts whose many-body space fits MaxDim
Shapes == {<<g, n>> \in (2..MaxGrid) \X (1..MaxCount) : Pow(g, n) <= MaxDim}

\* the electrons strings of length n
Electrons(n) == [1..n -> {"u", "d"}]

Dot(v, w) == SumSeq([i \in 1..Len(v) |-> v[i] * w[i]])

\* what the eigen-solver returns for a symmetric H of dimension d and
\* 0 < level < d (ARPACK's condition): level energies in ascending order (here
\* the ranks 1..level) and level columns, non-zero and pairwise orthogonal
RawEigenpairs(d) ==
    UNION {{[energies |-> [i \in 1..nev |-> i],
             spaces   |-> [i \in 1..nev |-> VecOfSeed(sd[i], d)]] :
                sd \in {q \in [1..nev -> 1..MaxVecSeed] :
                          \A i, j \in 1..nev :
                              /\ Dot(VecOfSeed(q[i], d), VecOfSeed(q[i], d)) > 0
                              /\ i < j => Dot(VecOfSeed(q[i], d), VecOfSeed(q[j], d)) = 0}} :
           nev \in {l \in 1..MaxLevel : l < d /\ l * d <= MaxCells}}

NotCalled == [err |-> "not called"]
\* the default H = None of solve and propagate, and an H the caller passes
None == [given |-> FALSE]
Given(A) == [given |-> TRUE, H |-> A]
NoArrays == [fulls |-> <<>>, spaces |-> <<>>, spins |-> <<>>, energies |-> <<>>]
NoEigenpairs == [energies |-> <<>>, spaces |-> <<>>]

\* the variables of the other specifications, at rest
BackendParked ==
    /\ env = "unset"
    /\ mod = [loaded |-> FALSE, csps |-> FALSE]
    /\ calls = <<>>

PropParked ==
    /\ Harg = None
    /\ v_ptrb = <<>>
    /\ t = <<>>
    /\ prop = [pc |-> "idle"]
    /\ evolution = NotCalled
    /\ drift = <<>>
    /\ log = <<>>

SysParked ==
    /\ args = <<>>
    /\ obj = NotCalled

ParityParked ==
    /\ perm = <<>>
    /\ sign = 0

ExtParked == BackendParked /\ PropParked /\ SysParked /\ ParityParked

CoreParked ==
    /\ s = [g |-> 2, count |-> 1, electrons |-> <<"u">>,
            h |-> zeros(2), v_int |-> zeros(2)]
    /\ terms = NotCalled
    /\ H = NotCalled
    /\ pc = "idle"
    /\ raw = NoEigenpairs
    /\ arr = NoArrays
    /\ state = NotCalled
    /\ spectrum = <<>>
    /\ level = 0
    /\ cpu = NotCalled
    /\ gpu = NotCalled

(***************************************************************************)
(* Specification of the Hamiltonian assembly.                              *)
(***************************************************************************)
Init ==
    /\ \E sh \in Shapes, a \in 0..MaxSeed, b \in 0..MaxSeed :
            s = [g |-> sh[1], count |-> sh[2],
                 electrons |-> [i \in 1..sh[2] |-> "u"],
                 h |-> MatOfSeed(a, sh[1]), v_int |-> MatOfSeed(b, sh[1])]
    /\ terms = NotCalled
    /\ H = NotCalled
    /\ pc = "idle"
    /\ raw = NoEigenpairs
    /\ arr = NoArrays
    /\ state = NotCalled
    /\ spectrum = <<>>
    /\ level = 0
    /\ cpu = NotCalled
    /\ gpu = NotCalled
    /\ ExtParked

GenTerms ==
    /\ terms = NotCalled
    /\ terms' = gen_terms(s.h, identity(s.g), s.count)
    /\ UNCHANGED <<s, H>>
    /\ UNCHANGED solveVars
    /\ UNCHANGED eigVars
    /\ UNCHANGED extVars

Hamiltonian ==
    /\ H = NotCalled
    /\ H' = hamiltonian(s)
    /\ UNCHANGED <<s, terms>>
    /\ UNCHANGED solveVars
    /\ UNCHANGED eigVars
    /\ UNCHANGED extVars

Next == GenTerms \/ Hamiltonian

Spec == Init /\ [][Next]_vars

(***************************************************************************)
(* Specification of solve from the return of the eigen-solver on.          *)
(***************************************************************************)
InitSolve ==
    /\ \E sh \in Shapes :
        /\ \E e \in Electrons(sh[2]) :
                s = [g |-> sh[1], count |-> sh[2], electrons |-> e,
                     h |-> zeros(sh[1]), v_int |-> zeros(sh[1])]
        /\ raw \in RawEigenpairs(Pow(sh[1], sh[2]))
    /\ pc = "eigsh"
    /\ arr = NoArrays
    /\ state = NotCalled
    /\ terms = NotCalled
    /\ H = NotCalled
    /\ spectrum = <<>>
    /\ level = 0
    /\ cpu = NotCalled
    /\ gpu = NotCalled
    /\ ExtParked

\* lines 384-401
SolveSpin ==
    /\ pc = "eigsh"
    /\ arr' = [fulls    |-> <<>>,
               spaces   |-> [c \in 1..Len(raw.spaces) |->
                                reshape_normalise(raw.spaces[c], s.count, s.g)],
               spins    |-> [c \in 1..Len(raw.spaces) |-> spin_of(s.electrons)],
               energies |-> raw.energies]
    /\ pc' = "spin"
    /\ UNCHANGED <<s, raw, state>>
    /\ UNCHANGED liftVars
    /\ UNCHANGED eigVars
    /\ UNCHANGED extVars

\* antisymmetrize, lines 231-269
AntisymmetrizeZeros ==
    /\ pc = "spin"
    /\ arr' = antisymmetrize_zeros(s, arr)
    /\ pc' = "zeros"
    /\ UNCHANGED <<s, raw, state>>
    /\ UNCHANGED liftVars
    /\ UNCHANGED eigVars
    /\ UNCHANGED extVars

\* antisymmetrize, lines 271-293, and its return to solve (line 404)
AntisymmetrizeDuplicates ==
    /\ pc = "zeros"
    /\ LET r == antisymmetrize_duplicates(arr)
       IN  IF r.err # "none"
           THEN /\ state' = [err |-> r.err]
                /\ pc' = "done"
                /\ UNCHANGED arr
           ELSE /\ arr' = [fulls |-> r.fulls, spaces |-> r.spaces,
                           spins |-> r.spins, energies |-> r.energies]
                /\ pc' = "antisym"
                /\ UNCHANGED state
    /\ UNCHANGED <<s, raw>>
    /\ UNCHANGED liftVars
    /\ UNCHANGED eigVars
    /\ UNCHANGED extVars

\* solve, lines 406-412, for the requested state k
SolvePopulate ==
    /\ pc = "antisym"
    /\ \E k \in 0..MaxLevel : state' = populate(arr, k)
    /\ pc' = "done"
    /\ UNCHANGED <<s, raw, arr>>
    /\ UNCHANGED liftVars
    /\ UNCHANGED eigVars
    /\ UNCHANGED extVars

NextSolve ==
    SolveSpin \/ AntisymmetrizeZeros \/ AntisymmetrizeDuplicates \/ SolvePopulate

SpecSolve == InitSolve /\ [][NextSolve]_vars

(***************************************************************************)
(* Specification of the eigen-solve of one Hamiltonian on both paths.      *)
(***************************************************************************)
\* the non-singular symmetric Hamiltonians, by their spectra
Spectra ==
    UNION {[1..d -> (-MaxEig..MaxEig) \ {0}] : d \in 2..MaxSpectrum}

InitEig ==
    /\ spectrum \in Spectra
    /\ level \in 1..MaxLevel
    /\ level < Len(spectrum)
    /\ cpu = NotCalled
    /\ gpu = NotCalled
    /\ s = [g |-> 2, count |-> 1, electrons |-> <<"u">>,
            h |-> zeros(2), v_int |-> zeros(2)]
    /\ terms = NotCalled
    /\ H = NotCalled
    /\ pc = "idle"
    /\ raw = NoEigenpairs
    /\ arr = NoArrays
    /\ state = NotCalled
    /\ ExtParked

\* solve, lines 381-382
SolveOnCpu ==
    /\ cpu = NotCalled
    /\ cpu' \in solve_on_cpu([v \in DOMAIN spectrum |-> Rat(spectrum[v])], level)
    /\ UNCHANGED <<s, spectrum, level, gpu>>
    /\ UNCHANGED liftVars
    /\ UNCHANGED solveVars
    /\ UNCHANGED extVars

\* solve, lines 376-380
SolveOnGpu ==
    /\ gpu = NotCalled
    /\ gpu' \in _solve_on_gpu([v \in DOMAIN spectrum |-> Rat(spectrum[v])], level)
    /\ UNCHANGED <<s, spectrum, level, cpu>>
    /\ UNCHANGED liftVars
    /\ UNCHANGED solveVars
    /\ UNCHANGED extVars

NextEig == SolveOnCpu \/ SolveOnGpu

SpecEig == InitEig /\ [][NextEig]_vars

(***************************************************************************)
(* Specification of the choice of the eigen-solver backend: the module is  *)
(* loaded once, the process may change its environment at any time, and    *)
(* solve is called any number of times.                                    *)
(***************************************************************************)
\* the values os.environ.get("iDEA_GPU") can have: None, "True", any other
EnvValues == {"unset", "True", "other"}

\* lines 18-21: cupy is imported, and the names cnp, csps, cspsla bound, only
\* if the variable equals "True" when the module is loaded
import_cupy(e) == e = "True"

\* solve, lines 376-382: the variable is read again at the call; the GPU
\* branch uses csps, a NameError if line 20 did not run
solve_backend(e, csps) ==
    IF e = "True"
    THEN IF csps THEN "gpu" ELSE "NameError"
    ELSE "cpu"

InitBackend ==
    /\ env \in EnvValues
    /\ mod = [loaded |-> FALSE, csps |-> FALSE]
    /\ calls = <<>>
    /\ CoreParked
    /\ PropParked
    /\ SysParked
    /\ ParityParked

\* import iDEA.methods.interacting
LoadModule ==
    /\ ~mod.loaded
    /\ mod' = [loaded |-> TRUE, csps |-> import_cupy(env)]
    /\ UNCHANGED <<env, calls>>
    /\ UNCHANGED notBackendVars

\* the process assigns or deletes os.environ["iDEA_GPU"]
SetEnv ==
    /\ \E v \in EnvValues \ {env} : env' = v
    /\ UNCHANGED <<mod, calls>>
    /\ UNCHANGED notBackendVars

\* one call of solve, as far as line 382
SolveCall ==
    /\ mod.loaded
    /\ Len(calls) < MaxCalls
    /\ calls' = Append(calls, solve_backend(env, mod.csps))
    /\ UNCHANGED <<env, mod>>
    /\ UNCHANGED notBackendVars

NextBackend == LoadModule \/ SetEnv \/ SolveCall

SpecBackend == InitBackend /\ [][NextBackend]_vars

(***************************************************************************)
(* Reference operators of the claims, written on index tuples and not      *)
(* with kron: coordinate a (1 = first particle) of flat index f (0-based)  *)
(* when the first particle is the most significant axis.                   *)
(***************************************************************************)
Coord(f, a, n, g) == (f \div Pow(g, n - a)) % g

\* op acting on particle slot a alone, the identity on every other slot
SlotOperator(op, a, n, g) ==
    [r \in 1..Pow(g, n) |-> [c \in 1..Pow(g, n) |->
        IF \A b \in (1..n) \ {a} : Coord(r - 1, b, n, g) = Coord(c - 1, b, n, g)
        THEN op[Coord(r - 1, a, n, g) + 1][Coord(c - 1, a, n, g) + 1]
        ELSE 0]]

RECURSIVE SumSlots(_, _, _, _)
SumSlots(op, a, n, g) ==
    IF a = 0 THEN zeros(Pow(g, n))
    ELSE MatAdd(SumSlots(op, a - 1, n, g), SlotOperator(op, a, n, g))

Bijections(n) == {pi \in [1..n -> 1..n] : \A i, j \in 1..n : pi[i] = pi[j] => i = j}

RECURSIVE SumPairs(_, _, _)
SumPairs(v, x, pairs) ==
    IF pairs = {} THEN 0
    ELSE LET pr == CHOOSE q \in pairs : TRUE
         IN  v[x[pr[1]] + 1][x[pr[2]] + 1] + SumPairs(v, x, pairs \ {pr})

(***************************************************************************)
(* C1: for every System with count = 1, hamiltonian(s) returns the         *)
(* single-particle Hamiltonian itself: gen_terms(op, I, 1) is the single   *)
(* term op, without error, and the interaction term is zero.               *)
(* This is the claim as stated; the code raises IndexError instead.        *)
(***************************************************************************)
C1_Count1HamiltonianIsSingleParticle ==
    /\ (terms # NotCalled /\ s.count = 1) =>
            (terms.err = "none" /\ terms.val = <<s.h>>)
    /\ (H # NotCalled /\ s.count = 1) =>
            (H.err = "none" /\ H.H = s.h /\ H.U = zeros(s.g))

(***************************************************************************)
(* C2: for count n >= 2, gen_terms returns n terms of dimension g^n whose  *)
(* sum is the sum over the n particle slots of the operator with op in     *)
(* that slot and the identity elsewhere; the terms and the slots are in    *)
(* one-to-one correspondence (every slot exactly once).                    *)
(***************************************************************************)
C2_GenTermsSumOverSlots ==
    (terms # NotCalled /\ s.count >= 2) =>
        /\ terms.err = "none"
        /\ Len(terms.val) = s.count
        /\ \A k \in 1..s.count : Dim(terms.val[k]) = Pow(s.g, s.count)
        /\ SumTerms(zeros(Pow(s.g, s.count)), terms.val)
              = SumSlots(s.h, s.count, s.count, s.g)
        /\ \E pi \in Bijections(s.count) : \A k \in 1..s.count :
              terms.val[k] = SlotOperator(s.h, pi[k], s.count, s.g)

\* three particles and an operator that is neither symmetric nor diagonal
C2_Witness ==
    /\ terms # NotCalled /\ terms.err = "none"
    /\ s.count = 3
    /\ s.h[1][2] = 1 /\ s.h[2][1] = 0 /\ s.h[1][1] = 1 /\ s.h[2][2] = 0

(***************************************************************************)
(* C3: for count n >= 2 the interaction operator built in hamiltonian is   *)
(* diagonal, and its diagonal entry at the flat index of (x_1,...,x_n),    *)
(* x_1 most significant, is the sum of v_int[x_i, x_j] over the pairs      *)
(* i < j, each pair once.                                                  *)
(***************************************************************************)
C3_InteractionIsPairSum ==
    (H # NotCalled /\ H.err = "none" /\ s.count >= 2) =>
        LET n == s.count
            g == s.g
            d == Pow(g, n)
        IN  /\ Dim(H.U) = d
            /\ \A r, c \in 1..d :
                  H.U[r][c] =
                    IF r = c
                    THEN SumPairs(s.v_int, [a \in 1..n |-> Coord(r - 1, a, n, g)],
                                  {<<i, j>> \in (1..n) \X (1..n) : i < j})
                    ELSE 0
            /\ H.H = MatAdd(H.H0, H.U)

\* three particles, a kernel that is not symmetric, a non-zero diagonal entry
C3_Witness ==
    /\ H # NotCalled /\ H.err = "none"
    /\ s.count = 3
    /\ s.v_int[1][2] = 1 /\ s.v_int[2][1] = 0
    /\ \E r \in 1..Dim(H.U) : H.U[r][r] = 2

(***************************************************************************)
(* Helpers of the claims about solve and antisymmetrize.                   *)
(***************************************************************************)
\* the index tuple j with the (space, spin) axes of particles a and b swapped
Exchange(j, a, b) ==
    [i \in DOMAIN j |->
        IF i = 2 * a - 1 THEN j[2 * b - 1]
        ELSE IF i = 2 * a THEN j[2 * b]
        ELSE IF i = 2 * b - 1 THEN j[2 * a - 1]
        ELSE IF i = 2 * b THEN j[2 * a]
        ELSE j[i]]

ChangesSign(full, n) ==
    \A a, b \in 1..n : a # b =>
        \A j \in DOMAIN full.t : full.t[Exchange(j, a, b)] = -full.t[j]

\* what raw eigenpair c becomes: its normalised spatial tensor, its spin
\* tensor and its antisymmetrized, normalised full wavefunction
SpaceOf(c) == reshape_normalise(raw.spaces[c], s.count, s.g)

FullOf(c) ==
    LET f == antisymmetrized(
                einsum_full(SpaceOf(c), spin_of(s.electrons), s.count, s.g), s.count)
    IN  [t |-> f.t, nsq |-> SumSq(f.t)]

\* the raw candidates still present after the zero filter (the energies of
\* the raw eigenpairs are their ranks, so they name the candidates)
Survivors == {arr.energies[i] : i \in 1..Len(arr.energies)}

SymmetricCandidate(c) ==
    \A x \in Idx(2, s.g) :
        raw.spaces[c][ravel(x, 2, s.g) + 1] = raw.spaces[c][ravel(<<x[2], x[1]>>, 2, s.g) + 1]

(***************************************************************************)
(* C4: every full wavefunction returned by antisymmetrize changes sign     *)
(* under the exchange of the (space, spin) axis pairs of any two           *)
(* particles, for every count >= 2.                                        *)
(***************************************************************************)
C4_FullsAntisymmetric ==
    (s.count >= 2) =>
        /\ (pc = "antisym" \/ (pc = "done" /\ state.err = "none")) =>
                \A i \in 1..Len(arr.fulls) : ChangesSign(arr.fulls[i], s.count)
        /\ (pc = "done" /\ state.err = "none") => ChangesSign(state.full, s.count)

\* three particles and a wavefunction that is not zero
C4_Witness ==
    /\ pc = "antisym" /\ s.count = 3
    /\ Len(arr.fulls) >= 1
    /\ \E j \in DOMAIN arr.fulls[1].t : arr.fulls[1].t[j] # 0

(***************************************************************************)
(* C5: after antisymmetrize the four outputs are co-indexed: at every      *)
(* output index, spaces, spins, fulls and energies derive from the same    *)
(* raw eigenpair, and so do the fields of the state solve returns.         *)
(* This is the claim as stated; the code truncates spaces and spins to the *)
(* first survivors while it filters fulls and energies.                    *)
(***************************************************************************)
C5_OutputsCoIndexed ==
    /\ (pc = "antisym") =>
            \A i \in 1..Len(arr.fulls) : \E c \in 1..Len(raw.spaces) :
                /\ arr.energies[i] = raw.energies[c]
                /\ arr.spaces[i] = SpaceOf(c)
                /\ arr.spins[i] = spin_of(s.electrons)
                /\ arr.fulls[i] = FullOf(c)
    /\ (pc = "done" /\ state.err = "none") =>
            \E c \in 1..Len(raw.spaces) :
                /\ state.energy = raw.energies[c]
                /\ state.space = SpaceOf(c)
                /\ state.full = FullOf(c)

(***************************************************************************)
(* C6: in the output of antisymmetrize no two surviving states, adjacent   *)
(* or not, have the same elementwise-magnitude pattern.                    *)
(* This is the claim as stated; the code compares neighbours only.         *)
(***************************************************************************)
C6_NoTwoSameMagnitude ==
    (pc = "antisym") =>
        \A i, j \in 1..Len(arr.fulls) :
            i < j => ~same_magnitude(arr.fulls[i], arr.fulls[j])

(***************************************************************************)
(* C7: when fewer than k+1 candidates survive antisymmetrization, solve    *)
(* returns no state and ends in an error that names the shortfall of the   *)
(* excitation budget (a request to retry with a larger level).             *)
(* This is the claim as stated; the code ends in a bare IndexError.        *)
(***************************************************************************)
C7_ShortfallIsRetryError ==
    (pc = "done" /\ (Len(arr.fulls) = 0 \/ state.k >= Len(arr.fulls))) =>
        state.err = "RetryWithLargerLevel"

(***************************************************************************)
(* C8: for count = 2, with equal spins every spatial candidate symmetric   *)
(* under the exchange of its two axes is discarded by the zero filter;     *)
(* with opposite spins every non-zero candidate survives it.               *)
(***************************************************************************)
C8_PauliZeroFilter ==
    (pc = "zeros" /\ s.count = 2) =>
        \A c \in 1..Len(raw.spaces) :
            /\ (s.electrons[1] = s.electrons[2] /\ SymmetricCandidate(c))
                    => raw.energies[c] \notin Survivors
            /\ (s.electrons[1] # s.electrons[2]
                    /\ \E i \in 1..Len(raw.spaces[c]) : raw.spaces[c][i] # 0)
                    => raw.energies[c] \in Survivors

\* equal spins: a symmetric candidate is discarded, another one survives
C8_Witness ==
    /\ pc = "zeros" /\ s.count = 2
    /\ s.electrons = <<"u", "u">>
    /\ \E c \in 1..Len(raw.spaces) :
            SymmetricCandidate(c) /\ raw.energies[c] \notin Survivors
    /\ Survivors # {}

(***************************************************************************)
(* Helpers of the claims about the eigen-solver paths.                     *)
(***************************************************************************)
SameEigenvalues(a, b) ==
    /\ Len(a) = Len(b)
    /\ \A i \in 1..Len(a) : RatEq(a[i], b[i])

\* the number of eigenvectors of H with an eigenvalue below x
CountBelow(x) == Cardinality({v \in DOMAIN spectrum : spectrum[v] < x})

\* energies are the level smallest-algebraic eigenvalues of H, ascending
SmallestAlgebraic(energies) ==
    /\ Len(energies) = level
    /\ \A i \in 1..level : \E x \in (-MaxEig - 1)..(MaxEig + 1) :
          /\ RatEq(energies[i], Rat(x))
          /\ CountBelow(x) < i
          /\ i <= CountBelow(x + 1)

(***************************************************************************)
(* C9: for the same H and level the GPU path returns the same eigenvalues  *)
(* as the CPU path, the level smallest-algebraic eigenvalues of H,         *)
(* whatever the signs of the eigenvalues of H.                             *)
(* This is the claim as stated; the largest eigenvalues of the inverse are *)
(* the smallest positive eigenvalues of H, not its most negative ones.     *)
(***************************************************************************)
C9_GpuMatchesCpu ==
    /\ (gpu # NotCalled) => SmallestAlgebraic(gpu.energies)
    /\ (gpu # NotCalled /\ cpu # NotCalled) =>
            SameEigenvalues(gpu.energies, cpu.energies)

(***************************************************************************)
(* C10: on both solver paths the eigenvalues handed on are in              *)
(* non-decreasing order and column i of the eigenvector array is an        *)
(* eigenvector of eigenvalue i: the re-sort of _solve_on_gpu permutes the  *)
(* eigenvalues and the columns alike.                                      *)
(***************************************************************************)
Paired(r) ==
    /\ Len(r.energies) = level /\ Len(r.spaces) = level
    /\ \A i \in 1..(level - 1) : RatLeq(r.energies[i], r.energies[i + 1])
    /\ \A i \in 1..level : RatEq(r.energies[i], Rat(spectrum[r.spaces[i]]))
    /\ \A i, j \in 1..level : r.spaces[i] = r.spaces[j] => i = j

C10_AscendingAndPaired ==
    /\ (cpu # NotCalled) => Paired(cpu)
    /\ (gpu # NotCalled) => Paired(gpu)

\* a GPU run of two eigenpairs whose re-sort is not the identity
C10_Witness ==
    /\ gpu # NotCalled /\ cpu # NotCalled
    /\ level = 2
    /\ spectrum[gpu.spaces[1]] < spectrum[gpu.spaces[2]]
    /\ \E v \in DOMAIN spectrum : spectrum[v] < 0

(***************************************************************************)
(* Time propagation: propagate and propagate_step.                         *)
(***************************************************************************)
\* line 498: partial_operators = lambda A, B, k, n: (A if i + k == n - 1
\* else B for i in range(n))
partial_operators(A, B, k, n) ==
    [p \in 1..n |-> IF (p - 1) + k = n - 1 THEN A ELSE B]

\* functools.reduce(lambda acc, val: f(val, acc), po) with the operands of f
\* the other way round
RECURSIVE reduce_acc_first(_, _)
reduce_acc_first(acc, po) ==
    IF po = <<>> THEN acc
    ELSE LET val == Head(po)
             applied == kron(acc, val)
         IN  reduce_acc_first(applied, Tail(po))

fold_partial_operators_acc_first(po) == reduce_acc_first(Head(po), Tail(po))

\* functools.reduce(function, iterable): the first item starts the
\* accumulator, the function is applied to the accumulator and each later
\* item; here function = lambda acc, val: f(val, acc, format="dia"), f = kron
RECURSIVE reduce(_, _)
reduce(acc, po) ==
    IF po = <<>> THEN acc
    ELSE LET val == Head(po)
             applied == kron(val, acc)
         IN  reduce(applied, Tail(po))

\* line 501: fold_partial_operators = lambda f, po: functools.reduce(...)
fold_partial_operators(po) == reduce(Head(po), Tail(po))

\* line 504: generate_terms = lambda f, A, B, n: (fold_partial_operators(f,
\* partial_operators(A, B, k, n)) for k in range(n))
generate_terms(A, B, n) ==
    [p \in 1..n |-> fold_partial_operators(partial_operators(A, B, p - 1, n))]

\* spsla.expm_multiply(-1.0j * dt * Hp, wavefunction): the library's result,
\* kept as the application it is
expm_multiply(dt, Hp, wavefunction) ==
    [dt |-> dt, Hp |-> Hp, wf |-> wavefunction]

\* np.zeros(shape=t.shape + state.space.shape): a snapshot not yet written
zero_snapshot == [zeros |-> TRUE]

\* iDEA.state.ManyBodyEvolution(initial_state=state): the evolution owns the
\* fields of the state it starts from
ManyBodyEvolution(initial_state) ==
    [space |-> initial_state.space, td_space |-> <<>>]

\* propagate_step with H += Vptrb for Hp = H + Vptrb
propagate_step_in_place(sys, evo, Hs, vp, j, dt) ==
    LET vptrb == diags(vp[j + 1])
        ts    == generate_terms(vptrb, identity(sys.g), sys.count)
        Vptrb == SumTerms(zeros(Pow(sys.g, sys.count)), ts)
        Hp    == MatAdd(Hs, Vptrb)
        wavefunction == evo.td_space[j]
    IN  [terms |-> ts, Hp |-> Hp, H |-> Hp,
         evolution |-> [evo EXCEPT !.td_space[j + 1] =
                            expm_multiply(dt, Hp, wavefunction)]]

\* propagate_step with the perturbation row of the step before
propagate_step_previous_row(sys, evo, Hs, vp, j, dt) ==
    LET vptrb == diags(vp[j])
        ts    == generate_terms(vptrb, identity(sys.g), sys.count)
        Vptrb == SumTerms(zeros(Pow(sys.g, sys.count)), ts)
        Hp    == MatAdd(Hs, Vptrb)
        wavefunction == evo.td_space[j]
    IN  [terms |-> ts, Hp |-> Hp, H |-> Hs,
         evolution |-> [evo EXCEPT !.td_space[j + 1] =
                            expm_multiply(dt, Hp, wavefunction)]]

\* propagate_step(s, evolution, H, v_ptrb, j, dt, objs), lines 443-457:
\* the terms, Hp, H after the call and the evolution after the call
propagate_step(sys, evo, Hs, vp, j, dt) ==
    LET vptrb == diags(vp[j + 1])
        ts    == generate_terms(vptrb, identity(sys.g), sys.count)
        Vptrb == SumTerms(zeros(Pow(sys.g, sys.count)), ts)
        Hp    == MatAdd(Hs, Vptrb)
        wavefunction == evo.td_space[j]
    IN  [terms |-> ts, Hp |-> Hp, H |-> Hs,
         evolution |-> [evo EXCEPT !.td_space[j + 1] =
                            expm_multiply(dt, Hp, wavefunction)]]

\* a real matrix equal to its transpose
symmetric(A) == \A i, j \in 1..Dim(A) : A[i][j] = A[j][i]

\* the perturbing potential number seed on T time points and g grid points:
\* row j holds the digits of seed + j in base MaxVal + 1
VptrbOfSeed(seed, T, g) ==
    [r \in 1..T |-> [i \in 1..g |->
        ((seed + r - 1) \div Pow(MaxVal + 1, i - 1)) % (MaxVal + 1)]]

\* the d x d matrix number seed an H passed by the caller is: MatOfSeed's
\* digits as far as seeds up to MaxPropSeed have any, zero from there on
HOfSeed(seed, d) ==
    [i \in 1..d |-> [j \in 1..d |->
        LET q == (i - 1) * d + (j - 1)
        IN  IF q <= MaxPropSeed
            THEN (seed \div Pow(MaxVal + 1, q)) % (MaxVal + 1)
            ELSE 0]]

\* the time grids of T points from 0 on, the first step d1, the later ones 1
TimeGrid(T, d1) == [r \in 1..T |-> IF r = 1 THEN 0 ELSE d1 + (r - 2)]

\* the norm of the snapshot expm_multiply returns: exp(-i dt Hp) is unitary
\* for a symmetric Hp and keeps the norm it is given; for any other Hp the
\* norm may move
norm_drifts(Hp, before) == IF symmetric(Hp) THEN {before} ELSE BOOLEAN

(***************************************************************************)
(* Specification of propagate.                                             *)
(***************************************************************************)
InitProp ==
    /\ \E sh \in Shapes, a \in 0..MaxPropSeed :
        /\ s = [g |-> sh[1], count |-> sh[2],
                electrons |-> [i \in 1..sh[2] |-> "u"],
                h |-> MatOfSeed(a, sh[1]), v_int |-> zeros(sh[1])]
        /\ Harg \in {None, Given(HOfSeed(a, Pow(sh[1], sh[2])))}
        /\ \E T \in 1..MaxT, d1 \in {1, MaxDt} :
            /\ v_ptrb = VptrbOfSeed(MaxPropSeed - a, T, sh[1])
            /\ t = TimeGrid(T, d1)
    /\ state = NotCalled
    /\ prop = [pc |-> "solve"]
    /\ evolution = NotCalled
    /\ drift = <<>>
    /\ log = <<>>
    /\ terms = NotCalled
    /\ H = NotCalled
    /\ pc = "idle"
    /\ raw = NoEigenpairs
    /\ arr = NoArrays
    /\ spectrum = <<>>
    /\ level = 0
    /\ cpu = NotCalled
    /\ gpu = NotCalled
    /\ BackendParked
    /\ SysParked
    /\ ParityParked

\* solve(s, H), lines 364-412, as far as s, H and the state it returns go:
\* H is built when it is None, H.tocsr() (line 382) is a copy, the state
\* holds an eigenvector the eigen-solver returned, reshaped and normalised
SolveForState ==
    /\ prop.pc = "solve"
    /\ LET built == IF Harg = None THEN hamiltonian(s)
                    ELSE [err |-> "none", H |-> Harg.H]
           d == Pow(s.g, s.count)
       IN  IF built.err # "none"
           THEN /\ state' = [err |-> built.err]
                /\ prop' = [pc |-> "raised", err |-> built.err]
           ELSE /\ \E sd \in {1, MaxPropSeed} :
                     state' = [err |-> "none",
                               space |-> reshape_normalise(VecOfSeed(sd, d),
                                                           s.count, s.g)]
                /\ prop' = [pc |-> "call"]
    /\ UNCHANGED <<s, Harg, v_ptrb, t, evolution, drift, log>>
    /\ UNCHANGED notPropVars

\* propagate, lines 486-508: H, dt, the evolution and snapshot 0
PropagateBegin ==
    /\ prop.pc = "call"
    /\ LET built == IF Harg = None THEN hamiltonian(s)
                    ELSE [err |-> "none", H |-> Harg.H]
           n_built == IF Harg = None THEN 1 ELSE 0
       IN  IF built.err # "none"
           THEN /\ prop' = [pc |-> "raised", err |-> built.err, builds |-> n_built]
                /\ UNCHANGED <<evolution, drift, log>>
           ELSE IF Len(t) < 2
           THEN /\ prop' = [pc |-> "raised", err |-> "IndexError", builds |-> n_built]
                /\ UNCHANGED <<evolution, drift, log>>
           ELSE /\ prop' = [pc |-> "loop", H |-> built.H, dt |-> t[2] - t[1],
                            j |-> 1, builds |-> n_built, terms |-> <<>>]
                /\ evolution' =
                      [ManyBodyEvolution(state) EXCEPT !.td_space =
                          [r \in 1..Len(t) |->
                              IF r = 1 THEN ManyBodyEvolution(state).space
                              ELSE zero_snapshot]]
                /\ drift' = <<FALSE>>
                /\ log' = <<<<"write", 0>>>>
    /\ UNCHANGED <<s, state, Harg, v_ptrb, t>>
    /\ UNCHANGED notPropVars

\* one pass of the loop of lines 511-515 with j # 0: propagate_step
PropagateStep ==
    /\ prop.pc = "loop"
    /\ prop.j < Len(t)
    /\ LET r == propagate_step(s, evolution, prop.H, v_ptrb, prop.j, prop.dt)
       IN  /\ evolution' = r.evolution
           /\ prop' = [prop EXCEPT !.H = r.H, !.j = prop.j + 1,
                                   !.terms = r.terms]
           /\ Harg' = IF Harg = None THEN None ELSE Given(r.H)
           /\ \E b \in norm_drifts(evolution'.td_space[prop.j + 1].Hp,
                                    drift[prop.j]) : drift' = Append(drift, b)
           /\ log' = log \o <<<<"read", prop.j - 1>>, <<"write", prop.j>>>>
    /\ UNCHANGED <<s, state, v_ptrb, t>>
    /\ UNCHANGED notPropVars

\* lines 518-521: the loop is over, the evolution is returned
PropagateReturn ==
    /\ prop.pc = "loop"
    /\ prop.j = Len(t)
    /\ prop' = [prop EXCEPT !.pc = "returned"]
    /\ UNCHANGED <<s, state, Harg, v_ptrb, t, evolution, drift, log>>
    /\ UNCHANGED notPropVars

NextProp == SolveForState \/ PropagateBegin \/ PropagateStep \/ PropagateReturn

SpecProp == InitProp /\ [][NextProp]_vars

(***************************************************************************)
(* The System class of system.py.  An array is its shape; a string is the  *)
(* sequence of its characters.                                             *)
(***************************************************************************)
\* np.zeros(len(self.x), len(self.x)) as np.zeros((n, n)) would run and
\* the rows of the len(x) by len(x) matrix be filled
build_second_derivative_matrix_two_d(o) ==
    [err |-> "none", matrix |-> <<o.x, o.x>>]

\* build_second_derivative_matrix, line 102: np.zeros(len(self.x),
\* len(self.x)) gives the second length as dtype, which numpy refuses
build_second_derivative_matrix(o) == [err |-> "TypeError"]

\* str.count(c)
str_count(e, c) == Cardinality({i \in 1..Len(e) : e[i] = c})

\* the stencils check allows, lines 158-165
Stencils == {3, 5, 7, 9, 11, 13}

\* the asserts of check on shapes, count, electrons and stencil, lines
\* 134-165, in their order; the arguments are arrays of the right rank
check(o) ==
    IF /\ o.x = o.v_ext
       /\ o.x = o.v_int[1] /\ o.x = o.v_int[2]
       /\ o.count >= 0
       /\ \A i \in 1..Len(o.electrons) : o.electrons[i] \in {"u", "d"}
       /\ o.count = o.up_count + o.down_count
       /\ o.stencil \in Stencils
    THEN "none"
    ELSE "AssertionError"

\* System.__init__, lines 35-47; v_ext_op = np.diag(v_ext) (line 45) has
\* the shape len(v_ext) by len(v_ext), kinetic_op (line 46) the shape of
\* the matrix build_second_derivative_matrix returns
System(a) ==
    LET o == [x |-> a.x, v_ext |-> a.v_ext, v_int |-> a.v_int,
              electrons |-> a.electrons, count |-> Len(a.electrons),
              up_count |-> str_count(a.electrons, "u"),
              down_count |-> str_count(a.electrons, "d"),
              stencil |-> a.stencil,
              v_ext_op |-> <<a.v_ext, a.v_ext>>]
        m == build_second_derivative_matrix(o)
    IN  IF a.x < 2 THEN [err |-> "IndexError"]
        ELSE IF m.err # "none" THEN [err |-> m.err]
        ELSE IF check(o) # "none" THEN [err |-> check(o)]
        ELSE [err |-> "none", fields |-> o @@ [kinetic_op |-> m.matrix]]

\* the electrons setter, lines 201-206
electrons_setter(o, value) ==
    [err |-> "none",
     fields |-> [o.fields EXCEPT !.electrons = value,
                                 !.count = Len(value),
                                 !.up_count = str_count(value, "u"),
                                 !.down_count = str_count(value, "d")]]

\* the strings over u, d and one other character, up to MaxElectrons long
Strings == UNION {[1..n -> {"u", "d", "x"}] : n \in 0..MaxElectrons}

\* what the spec calls a well-formed System: matching shapes, a positive
\* count, spins u and d only, a stencil of the list
WellFormed(a) ==
    /\ a.x >= 2
    /\ a.v_ext = a.x
    /\ a.v_int = <<a.x, a.x>>
    /\ Len(a.electrons) > 0
    /\ \A i \in 1..Len(a.electrons) : a.electrons[i] \in {"u", "d"}
    /\ a.stencil \in Stencils

\* the arguments of a construction: grids of 0..MaxGrid points, v_ext and
\* v_int of that size or one longer, any string, stencils in and off the list
Arguments ==
    [x : 0..MaxGrid, v_ext : 0..(MaxGrid + 1),
     v_int : (0..(MaxGrid + 1)) \X (0..(MaxGrid + 1)),
     electrons : Strings, stencil : {3, 4, 13}]

(***************************************************************************)
(* Specification of a System object: its construction, and assignments to  *)
(* its electrons property.  A System the program holds is one it has       *)
(* constructed or one load_system has unpickled.                           *)
(***************************************************************************)
InitSys ==
    /\ args \in {a \in Arguments :
                    /\ a.v_ext \in {a.x, a.x + 1}
                    /\ a.v_int \in {<<a.x, a.x>>, <<a.x, a.x + 1>>}}
    /\ obj = NotCalled
    /\ CoreParked
    /\ BackendParked
    /\ PropParked
    /\ ParityParked

\* System(x, v_ext, v_int, electrons, stencil)
Construct ==
    /\ obj = NotCalled
    /\ obj' = System(args)
    /\ UNCHANGED args
    /\ UNCHANGED notSysVars

\* load_system(file_name), lines 226-236: the pickled fields of a
\* well-formed System, __init__ is not run
LoadSystem ==
    /\ obj = NotCalled
    /\ WellFormed(args)
    /\ obj' = [err |-> "none",
               fields |-> [x |-> args.x, v_ext |-> args.v_ext,
                           v_int |-> args.v_int, electrons |-> args.electrons,
                           count |-> Len(args.electrons),
                           up_count |-> str_count(args.electrons, "u"),
                           down_count |-> str_count(args.electrons, "d"),
                           stencil |-> args.stencil,
                           v_ext_op |-> <<args.v_ext, args.v_ext>>,
                           kinetic_op |-> <<args.x, args.x>>]]
    /\ UNCHANGED args
    /\ UNCHANGED notSysVars

\* s.electrons = value
SetElectrons ==
    /\ obj.err = "none"
    /\ \E value \in Strings : obj' = electrons_setter(obj, value)
    /\ UNCHANGED args
    /\ UNCHANGED notSysVars

NextSys == Construct \/ LoadSystem \/ SetElectrons

SpecSys == InitSys /\ [][NextSys]_vars

(***************************************************************************)
(* Specification of _permutation_parity on its own: the permutations of    *)
(* 0..n-1 that antisymmetrize's loop over itertools.permutations hands it, *)
(* one after the other.                                                    *)
(***************************************************************************)
InitParity ==
    /\ \E n \in 1..MaxPerm : perm \in permutations(n)
    /\ sign = 0
    /\ CoreParked
    /\ BackendParked
    /\ PropParked
    /\ SysParked

\* line 247: _permutation_parity(p)
PermutationParity ==
    /\ sign = 0
    /\ sign' = _permutation_parity(perm)
    /\ UNCHANGED perm
    /\ UNCHANGED notParityVars

\* line 245: the loop goes on to another permutation, here one that differs
\* from the last by a transposition
NextPermutation ==
    /\ sign # 0
    /\ \E i, j \in 1..Len(perm) :
            /\ i < j
            /\ perm' = [perm EXCEPT ![i] = perm[j], ![j] = perm[i]]
    /\ sign' = 0
    /\ UNCHANGED notParityVars

NextParity == PermutationParity \/ NextPermutation

SpecParity == InitParity /\ [][NextParity]_vars

(***************************************************************************)
(* C11: the backend is decided once, when the module is loaded, from       *)
(* iDEA_GPU (GPU only if it equals "True"); every later solve call uses    *)
(* that backend, whatever the variable's value at the time of the call.    *)
(***************************************************************************)
C11_BackendDecidedAtLoad ==
    \A i \in DOMAIN calls : calls[i] = (IF mod.csps THEN "gpu" ELSE "cpu")

(***************************************************************************)
(* C12: propagate on a grid of T >= 2 points sets snapshot 0 to the        *)
(* initial state's spatial wavefunction and then takes exactly T - 1 steps *)
(* in the order j = 1..T-1; step j reads only snapshot j - 1, uses the row *)
(* v_ptrb[j, :] and dt = t[1] - t[0], and writes only snapshot j; every    *)
(* snapshot is written exactly once and none is read before it is written. *)
(***************************************************************************)
\* the accesses of td_space of the steps 1..k, in order
RECURSIVE StepAccesses(_)
StepAccesses(k) ==
    IF k = 0 THEN <<>>
    ELSE StepAccesses(k - 1) \o <<<<"read", k - 1>>, <<"write", k>>>>

\* snapshot j as the contract gives it from snapshot j - 1
StepOf(j) ==
    [dt |-> t[2] - t[1],
     Hp |-> MatAdd(prop.H, SumSlots(diags(v_ptrb[j + 1]), s.count, s.count, s.g)),
     wf |-> evolution.td_space[j]]

C12_SequentialSteps ==
    prop.pc \in {"loop", "returned"} =>
        /\ Len(t) >= 2
        /\ Len(evolution.td_space) = Len(t)
        /\ evolution.td_space[1] = state.space
        /\ \A j \in 1..(prop.j - 1) : evolution.td_space[j + 1] = StepOf(j)
        /\ \A j \in prop.j..(Len(t) - 1) : evolution.td_space[j + 1] = zero_snapshot
        /\ log = <<<<"write", 0>>>> \o StepAccesses(prop.j - 1)
        /\ prop.pc = "returned" => prop.j = Len(t)

C12_Witness ==
    /\ prop.pc = "returned"
    /\ Len(t) = 3
    /\ t[2] - t[1] = 2
    /\ s.count = 2
    /\ v_ptrb[2] # v_ptrb[3]
    /\ v_ptrb[2][1] # v_ptrb[2][2]
    /\ log = <<<<"write", 0>>, <<"read", 0>>, <<"write", 1>>,
               <<"read", 1>>, <<"write", 2>>>>

(***************************************************************************)
(* C13: if the norm of the snapshot written at some step j drifts beyond   *)
(* tolerance, propagate stops: no snapshot with a greater index is         *)
(* computed and the call ends in a fatal error, not in a returned          *)
(* evolution.                                                              *)
(***************************************************************************)
C13_DriftStopsPropagation ==
    prop.pc \in {"loop", "returned"} =>
        \A j \in 1..Len(drift) :
            drift[j] => /\ Len(drift) = j
                        /\ prop.pc # "returned"

C16_LiftedOperatorSymmetric ==
    (terms # NotCalled /\ symmetric(s.h)) =>
        /\ terms.err = "none"
        /\ symmetric(SumTerms(zeros(Pow(s.g, s.count)), terms.val))

(***************************************************************************)
(* C17: hamiltonian, solve, propagate and propagate_step leave the System  *)
(* and a Hamiltonian passed in unchanged: the perturbed Hamiltonian of a   *)
(* step is a new object, a supplied H is reused and never rebuilt, and     *)
(* when H is None it is built exactly once, before the first step, and     *)
(* that one object serves every step.                                      *)
(***************************************************************************)
C17_SystemAndHUnchanged ==
    [][/\ s' = s
       /\ Harg' = Harg
       /\ (prop.pc = "call" /\ prop'.pc = "loop") =>
              /\ prop'.builds = (IF Harg = None THEN 1 ELSE 0)
              /\ prop'.H = (IF Harg = None THEN hamiltonian(s).H ELSE Harg.H)
       /\ prop.pc = "loop" =>
              /\ prop'.builds = prop.builds
              /\ prop'.H = prop.H]_vars

\* a propagation of two steps with H built by propagate has returned
C17_Witness ==
    /\ prop.pc = "returned"
    /\ Len(t) = 3
    /\ s.count = 2
    /\ prop.builds = 1
    /\ prop.terms # <<zeros(Pow(s.g, s.count)), zeros(Pow(s.g, s.count))>>

(***************************************************************************)
(* C18: _permutation_parity(p) is the sign of p for every permutation p of *)
(* 0..n-1, n >= 1: +1 for a product of an even number of transpositions,   *)
(* -1 for an odd one; the identity gives +1, a single transposition -1.    *)
(***************************************************************************)
\* the sign of a permutation by its inversions
Inversions(q) == {<<i, j>> \in (1..Len(q)) \X (1..Len(q)) : i < j /\ q[i] > q[j]}
SignOf(q) == IF Cardinality(Inversions(q)) % 2 = 0 THEN 1 ELSE -1

IsIdentity(q) == \A i \in 1..Len(q) : q[i] = i - 1
IsTransposition(q) == Cardinality({i \in 1..Len(q) : q[i] # i - 1}) = 2

C18_ParityIsSign ==
    sign # 0 =>
        /\ sign = SignOf(perm)
        /\ IsIdentity(perm) => sign = 1
        /\ IsTransposition(perm) => sign = -1

\* a cycle of three of the five elements, an even permutation that leaves
\* no fewer than three elements out of place
C18_Witness ==
    /\ sign = 1
    /\ Len(perm) = 5
    /\ Cardinality({i \in 1..Len(perm) : perm[i] # i - 1}) = 3

(***************************************************************************)
(* C19: the duplicate filter scans the normalised candidates in ascending  *)
(* energy and drops a candidate exactly when its magnitude pattern matches *)
(* that of the previous surviving candidate, so that of each run of        *)
(* consecutive duplicates the first, lowest-energy candidate is kept, with *)
(* its own energy.                                                         *)
(* This is the claim as stated; the code drops a candidate when it matches *)
(* the next one and so keeps the last of each run.                         *)
(***************************************************************************)
\* the raw eigenpairs the zero filter lets through, in ascending energy
NonZeroCandidates ==
    SelectSeq([c \in 1..Len(raw.spaces) |-> c], LAMBDA c : FullOf(c).nsq # 0)

\* the scan of the claim over the candidates cands from position i on, last
\* being the previous surviving candidate (0 before the first)
RECURSIVE KeepFirstOfRuns(_, _, _)
KeepFirstOfRuns(cands, i, last) ==
    IF i > Len(cands) THEN <<>>
    ELSE IF last # 0 /\ same_magnitude(FullOf(cands[i]), FullOf(last))
         THEN KeepFirstOfRuns(cands, i + 1, last)
         ELSE <<cands[i]>> \o KeepFirstOfRuns(cands, i + 1, cands[i])

C19_FirstOfRunKept ==
    (pc = "antisym") =>
        LET kept == KeepFirstOfRuns(NonZeroCandidates, 1, 0)
        IN  /\ Len(arr.fulls) = Len(kept)
            /\ \A i \in 1..Len(kept) :
                    /\ arr.energies[i] = raw.energies[kept[i]]
                    /\ arr.fulls[i] = FullOf(kept[i])

(***************************************************************************)
(* C20: for every particle count n >= 2, every slot k and every diagonal   *)
(* perturbation operator, the lifting done inline in propagate             *)
(* (generate_terms) gives term by term the operator gen_terms(op, I, n)    *)
(* gives, so the perturbation is lifted in the axis order of H.            *)
(***************************************************************************)
C20_InlineLiftingIsGenTerms ==
    (prop.pc \in {"loop", "returned"} /\ prop.j >= 2 /\ s.count >= 2) =>
        LET op == diags(v_ptrb[prop.j])
            ts == gen_terms(op, identity(s.g), s.count)
        IN  /\ ts.err = "none"
            /\ Len(prop.terms) = s.count
            /\ \A k \in 0..(s.count - 1) : prop.terms[k + 1] = ts.val[k + 1]

\* three particles and a perturbation that is not the same at every grid
\* point, so that the three terms differ
C20_Witness ==
    /\ prop.pc \in {"loop", "returned"}
    /\ prop.j >= 2
    /\ s.count = 3
    /\ prop.terms[1] # prop.terms[2]
    /\ prop.terms[2] # prop.terms[3]

(***************************************************************************)
(* C21: constructing a System from well-formed inputs (a grid x of at      *)
(* least 2 points, v_ext of the shape of x, v_int of shape len(x) by        *)
(* len(x), electrons over u and d, a stencil of the list) completes        *)
(* without raising, and kinetic_op and v_ext_op of the constructed object  *)
(* are both square of dimension len(x).                                    *)
(***************************************************************************)
C21_WellFormedConstructs ==
    (/\ obj # NotCalled
     /\ args.x >= 2
     /\ args.v_ext = args.x
     /\ args.v_int = <<args.x, args.x>>
     /\ \A i \in 1..Len(args.electrons) : args.electrons[i] \in {"u", "d"}
     /\ args.stencil \in Stencils)
        => /\ obj.err = "none"
           /\ obj.fields.kinetic_op = <<args.x, args.x>>
           /\ obj.fields.v_ext_op = <<args.x, args.x>>

====
